---- MODULE Spec2Model ----
(***************************************************************************)
(* quicklens/lens.py: first-order lensed B-modes on the flat sky: the map   *)
(* routine calc_lensed_b_first_order and the two binned-spectrum routines. *)
(*                                                                         *)
(* Numbers are exact: a complex number is (re + i*im)/den * (2*pi)^tau *   *)
(* sqrt(rad) with integer re, im, den > 0, tau >= 0 and squarefree rad, so *)
(* that the mode coordinates 2*pi*k/(n*d), the rotations exp(+-2i*psi) and *)
(* the rescale sqrt(nx*ny)/sqrt(dx*dy) are computed without rounding.      *)
(***************************************************************************)
EXTENDS Integers, Sequences, FiniteSets, TLC

VARIABLES
    pc,       \* "idle" before any call, "ready" before the call, "done" after it
    under,    \* the real-space maps the arguments were made from
    args,     \* the arguments of the call
    heap,     \* the objects alive: the caller's, then those the call constructed
    writes,   \* per object, the number of writes to it after its construction
    outcome,  \* what the call gave: a returned value or a raised exception
    trace,    \* the calls made to the estimator and container modules
    first     \* the first call of a sequence of calls: its arguments and outcome

vars == <<pc, under, args, heap, writes, outcome, trace, first>>

(***************************************************************************)
(* Bounds of the model.                                                    *)
(***************************************************************************)
\* largest pixel value of an input map
MaxAmp == 1

\* largest |c| of a scalar multiplying the potential
MaxScale == 2

\* largest value of a model power spectrum at a multipole
MaxPower == 1

\* lmax of the model power spectra
LMax == 4

\* grid shapes <<nx, ny>>: the discrete transform has exact twiddles for 1, 2, 4
Shapes == {<<1, 1>>, <<2, 1>>, <<1, 2>>, <<2, 2>>, <<4, 2>>}

\* pixel widths, in a rational unit of angle
PixSizes == {1, 2}

(***************************************************************************)
(* Exact complex arithmetic (Python complex / numpy array elements).       *)
(***************************************************************************)
Abs(n) == IF n < 0 THEN -n ELSE n

RECURSIVE Gcd(_, _)
Gcd(a, b) == IF b = 0 THEN a ELSE Gcd(b, a % b)

CZero == [re |-> 0, im |-> 0, den |-> 1, tau |-> 0, rad |-> 1]

\* a sum of two numbers that are not rational multiples of one another
Incommensurable == [re |-> 0, im |-> 0, den |-> 0, tau |-> 0, rad |-> 0]

\* the number (re + i*im)/den * (2*pi)^tau * sqrt(rad), in lowest terms
CNorm(re, im, den, tau, rad) ==
    IF re = 0 /\ im = 0 THEN CZero
    ELSE IF den = 1
    THEN [re |-> re, im |-> im, den |-> 1, tau |-> tau, rad |-> rad]
    ELSE LET g == Gcd(Gcd(Abs(re), Abs(im)), den)
         IN  [re |-> re \div g, im |-> im \div g, den |-> den \div g,
              tau |-> tau, rad |-> rad]

CRat(n, d) == CNorm(n, 0, d, 0, 1)

CInt(n) == CRat(n, 1)

IsZero(a) == a = CZero

CAdd(a, b) ==
    IF a = Incommensurable \/ b = Incommensurable THEN Incommensurable
    ELSE IF IsZero(a) THEN b
    ELSE IF IsZero(b) THEN a
    ELSE IF a.tau # b.tau \/ a.rad # b.rad THEN Incommensurable
    ELSE LET g == Gcd(a.den, b.den)
             fa == b.den \div g
             fb == a.den \div g
         IN  CNorm(a.re * fa + b.re * fb, a.im * fa + b.im * fb,
                   a.den * fa, a.tau, a.rad)

CMul(a, b) ==
    IF a = Incommensurable \/ b = Incommensurable THEN Incommensurable
    ELSE IF IsZero(a) \/ IsZero(b) THEN CZero
    ELSE LET g == Gcd(a.rad, b.rad)
         IN  CNorm((a.re * b.re - a.im * b.im) * g,
                   (a.re * b.im + a.im * b.re) * g,
                   a.den * b.den, a.tau + b.tau,
                   (a.rad \div g) * (b.rad \div g))

CNeg(a) == CMul(CInt(-1), a)

CConj(a) == IF a = Incommensurable THEN a ELSE [a EXCEPT !.im = -a.im]

\* the largest s with s*s dividing n
SquarePart(n) ==
    CHOOSE s \in 1..n : n % (s * s) = 0 /\ \A t \in (s + 1)..n : n % (t * t) # 0

\* np.sqrt(a) / np.sqrt(b) for positive integers a, b: sqrt(a*b) / b
SqrtRatio(a, b) ==
    LET s == SquarePart(a * b)
    IN  CNorm(s, 0, b, 0, (a * b) \div (s * s))

(***************************************************************************)
(* numpy arrays: functions over the index set of a grid.                   *)
(***************************************************************************)
Modes(nx, ny) == (0..(nx - 1)) \X (0..(ny - 1))

\* an array holds values: each element is computed once, when the array is built
Array(f) == f @@ <<>>

AMul(a, b) == Array([m \in DOMAIN a |-> CMul(a[m], b[m])])

AAdd(a, b) == Array([m \in DOMAIN a |-> CAdd(a[m], b[m])])

ANeg(a) == Array([m \in DOMAIN a |-> CNeg(a[m])])

AScale(c, a) == Array([m \in DOMAIN a |-> CMul(c, a[m])])

AllZero(a) == \A m \in DOMAIN a : IsZero(a[m])

\* a + b over a common denominator, not yet in lowest terms
CAddRaw(a, b) ==
    IF a = Incommensurable \/ b = Incommensurable THEN Incommensurable
    ELSE IF a.re = 0 /\ a.im = 0 THEN b
    ELSE IF b.re = 0 /\ b.im = 0 THEN a
    ELSE IF a.tau # b.tau \/ a.rad # b.rad THEN Incommensurable
    ELSE IF a.den = b.den
    THEN [a EXCEPT !.re = a.re + b.re, !.im = a.im + b.im]
    ELSE LET g == Gcd(a.den, b.den)
             fa == b.den \div g
             fb == a.den \div g
         IN  [a EXCEPT !.re = a.re * fa + b.re * fb,
                       !.im = a.im * fa + b.im * fb,
                       !.den = a.den * fa]

RECURSIVE CSumRaw(_, _)
CSumRaw(f, n) == IF n = 0 THEN CZero ELSE CAddRaw(CSumRaw(f, n - 1), f[n - 1])

\* f[0] + ... + f[n-1]
CSum(f, n) ==
    LET t == CSumRaw(f, n)
    IN  IF t = Incommensurable THEN t ELSE CNorm(t.re, t.im, t.den, t.tau, t.rad)

\* a * (-i)^r
CRot(a, r) ==
    IF r = 0 \/ a = Incommensurable THEN a
    ELSE IF r = 1 THEN [a EXCEPT !.re = a.im, !.im = -a.re]
    ELSE IF r = 2 THEN [a EXCEPT !.re = -a.re, !.im = -a.im]
    ELSE [a EXCEPT !.re = -a.im, !.im = a.re]

\* exp(-2*pi*i*(kx*x/nx + ky*y/ny)) = (-i)^Quarter for nx, ny in {1, 2, 4}
Quarter(nx, ny, k, x) ==
    (k[1] * x[1] * (4 \div nx) + k[2] * x[2] * (4 \div ny)) % 4

\* the sum of f over the index set of an nx-by-ny grid
GridSum(f, nx, ny) ==
    CSum([x \in 0..(nx - 1) |-> CSumRaw([y \in 0..(ny - 1) |-> f[<<x, y>>]], ny)], nx)

\* np.fft.fft2: sum over x of a[x] * exp(-2*pi*i*k.x/n)
fft2(a, nx, ny) ==
    Array([k \in Modes(nx, ny) |->
        GridSum([x \in Modes(nx, ny) |-> CRot(a[x], Quarter(nx, ny, k, x))], nx, ny)])

\* np.fft.ifft2: sum over k of a[k] * exp(+2*pi*i*k.x/n), divided by nx*ny
ifft2(a, nx, ny) ==
    Array([x \in Modes(nx, ny) |->
        CMul(CRat(1, nx * ny),
             GridSum([k \in Modes(nx, ny) |->
                        CRot(a[k], (4 - Quarter(nx, ny, k, x)) % 4)], nx, ny))])

\* np.fft.fftfreq(n)[k] * n: the signed integer frequency of index k
fftfreq(k, n) == IF k <= (n - 1) \div 2 THEN k ELSE k - n

(***************************************************************************)
(* The grid/Fourier container module (maps): rmap, rfft, cfft.             *)
(***************************************************************************)
HalfModes(nx, ny) == (0..(nx \div 2)) \X (0..(ny - 1))

rmap(nx, dx, ny, dy, map) ==
    [rep |-> "rmap", nx |-> nx, dx |-> dx, ny |-> ny, dy |-> dy, map |-> map]

rfft(nx, dx, ny, dy, fft) ==
    [rep |-> "rfft", nx |-> nx, dx |-> dx, ny |-> ny, dy |-> dy, fft |-> fft]

cfft(nx, dx, ny, dy, fft) ==
    [rep |-> "cfft", nx |-> nx, dx |-> dx, ny |-> ny, dy |-> dy, fft |-> fft]

\* maps.cfft(nx, dx, ny=ny, dy=dy): a field of zeros
cfft_zeros(nx, dx, ny, dy) ==
    cfft(nx, dx, ny, dy, Array([m \in Modes(nx, ny) |-> CZero]))

is_rmap(obj) == obj.rep = "rmap"

is_rfft(obj) == obj.rep = "rfft"

\* rmap.get_rfft: the transform of a real map, half-plane storage
get_rfft(obj) ==
    LET full == fft2(obj.map, obj.nx, obj.ny)
    IN  rfft(obj.nx, obj.dx, obj.ny, obj.dy,
             Array([m \in HalfModes(obj.nx, obj.ny) |-> full[m]]))

\* rfft.get_cfft: the other half-plane by Hermitian symmetry
get_cfft(obj) ==
    cfft(obj.nx, obj.dx, obj.ny, obj.dy,
         Array([m \in Modes(obj.nx, obj.ny) |->
            IF m[1] <= obj.nx \div 2 THEN obj.fft[m]
            ELSE CConj(obj.fft[<<(obj.nx - m[1]) % obj.nx,
                                 (obj.ny - m[2]) % obj.ny>>])]))

compatible(a, b) ==
    a.nx = b.nx /\ a.ny = b.ny /\ a.dx = b.dx /\ a.dy = b.dy

\* pix.get_lxly: lx = 2*pi*fftfreq(nx, dx), ly = 2*pi*fftfreq(ny, dy)
get_lx(obj) ==
    Array([m \in Modes(obj.nx, obj.ny) |->
        CNorm(fftfreq(m[1], obj.nx), 0, obj.nx * obj.dx, 1, 1)])

get_ly(obj) ==
    Array([m \in Modes(obj.nx, obj.ny) |->
        CNorm(fftfreq(m[2], obj.ny), 0, obj.ny * obj.dy, 1, 1)])

(***************************************************************************)
(* calc_lensed_b_first_order(e, phi)                                       *)
(***************************************************************************)
\* np.exp(sign*2.j*psi) with psi = np.arctan2(lx, -ly):
\* cos(psi) = -ly/l, sin(psi) = lx/l, and psi = pi where lx = ly = 0
ExpTwoIPsiAt(sign, x, y) ==
    LET X == x.re * y.den
        Y == y.re * x.den
    IN  IF X = 0 /\ Y = 0 THEN CInt(1)
        ELSE CNorm(Y * Y - X * X, -sign * 2 * X * Y, X * X + Y * Y, 0, 1)

exp2ipsi(sign, lx, ly) ==
    Array([m \in DOMAIN lx |-> ExpTwoIPsiAt(sign, lx[m], ly[m])])

\* the frame of one call: the objects alive, the locals (references), the
\* number of times each object was written after its construction
Frame(e, phi) ==
    [heap |-> <<e, phi>>, writes |-> <<0, 0>>,
     e |-> 1, phi |-> 2, pfft |-> 0, ret |-> 0, raised |-> "none"]

New(fr, obj) ==
    [fr EXCEPT !.heap = Append(@, obj), !.writes = Append(@, 0)]

Last(fr) == Len(fr.heap)

Store(fr, id, obj) ==
    [fr EXCEPT !.heap[id] = obj, !.writes[id] = @ + 1]

\* e.get_rfft().get_cfft(), each call constructing a new object
RfftThenCfft(fr, id) ==
    LET f1 == New(fr, get_rfft(fr.heap[id]))
    IN  New(f1, get_cfft(f1.heap[Last(f1)]))

NormalizeE1(fr) ==
    IF is_rmap(fr.heap[fr.e])
    THEN LET f == RfftThenCfft(fr, fr.e) IN [f EXCEPT !.e = Last(f)]
    ELSE fr

\* a bug: the second check converts whatever is not a real-space map
NormalizeE2Always(fr) ==
    IF ~is_rmap(fr.heap[fr.e])
    THEN LET f == New(fr, get_cfft(fr.heap[fr.e])) IN [f EXCEPT !.e = Last(f)]
    ELSE fr

NormalizeE2(fr) ==
    IF is_rfft(fr.heap[fr.e])
    THEN LET f == New(fr, get_cfft(fr.heap[fr.e])) IN [f EXCEPT !.e = Last(f)]
    ELSE fr

NormalizePhi(fr) ==
    IF is_rmap(fr.heap[fr.phi])
    THEN LET f == RfftThenCfft(fr, fr.phi) IN [f EXCEPT !.pfft = Last(f)]
    ELSE IF is_rfft(fr.heap[fr.phi])
    THEN LET f == New(fr, get_cfft(fr.heap[fr.phi])) IN [f EXCEPT !.pfft = Last(f)]
    ELSE [fr EXCEPT !.pfft = fr.phi]

\* a bug: the assertion compares the array shapes only
AssertShapesOnly(fr) ==
    IF fr.heap[fr.e].nx = fr.heap[fr.pfft].nx /\ fr.heap[fr.e].ny = fr.heap[fr.pfft].ny
    THEN fr
    ELSE [fr EXCEPT !.raised = "AssertionError"]

AssertCompatible(fr) ==
    IF compatible(fr.heap[fr.e], fr.heap[fr.pfft])
    THEN fr
    ELSE [fr EXCEPT !.raised = "AssertionError"]

AllocRet(fr) ==
    LET e == fr.heap[fr.e]
        f == New(fr, cfft_zeros(e.nx, e.dx, e.ny, e.dy))
    IN  [f EXCEPT !.ret = Last(f)]

\* a bug: the gradients are added where they should be multiplied
GradProductSum(lx, ly, E, rot, P, nx, ny) ==
    AAdd(AAdd(ifft2(AMul(AMul(lx, E), rot), nx, ny), ifft2(AMul(lx, P), nx, ny)),
         AAdd(ifft2(AMul(AMul(ly, E), rot), nx, ny), ifft2(AMul(ly, P), nx, ny)))

\* a bug: pfft.fft written where e.fft should be
GradProductPhiTwice(lx, ly, E, rot, P, nx, ny) ==
    AAdd(AMul(ifft2(AMul(AMul(lx, P), rot), nx, ny), ifft2(AMul(lx, P), nx, ny)),
         AMul(ifft2(AMul(AMul(ly, P), rot), nx, ny), ifft2(AMul(ly, P), nx, ny)))

\* np.fft.ifft2(lx*E*rot) * np.fft.ifft2(lx*P) + np.fft.ifft2(ly*E*rot) * np.fft.ifft2(ly*P)
GradProduct(lx, ly, E, rot, P, nx, ny) ==
    AAdd(AMul(ifft2(AMul(AMul(lx, E), rot), nx, ny), ifft2(AMul(lx, P), nx, ny)),
         AMul(ifft2(AMul(AMul(ly, E), rot), nx, ny), ifft2(AMul(ly, P), nx, ny)))

\* the right-hand side of the assignment to ret.fft
LensedBFormula(e, pfft, ret) ==
    LET nx == ret.nx
        ny == ret.ny
        lx == get_lx(ret)
        ly == get_ly(ret)
        rp == exp2ipsi(1, lx, ly)
        rm == exp2ipsi(-1, lx, ly)
        plus  == AMul(fft2(GradProduct(lx, ly, e.fft, rp, pfft.fft, nx, ny), nx, ny), rm)
        minus == AMul(fft2(ANeg(GradProduct(lx, ly, e.fft, rm, pfft.fft, nx, ny)), nx, ny), rp)
    IN  AScale(CNorm(0, -1, 2, 0, 1), AAdd(plus, minus))

\* a bug: the formula is assigned to e.fft
AssignFftToE(fr) ==
    LET ret == fr.heap[fr.ret]
    IN  Store(fr, fr.e,
              [ret EXCEPT !.fft = LensedBFormula(fr.heap[fr.e], fr.heap[fr.pfft], ret)])

AssignFft(fr) ==
    LET ret == fr.heap[fr.ret]
    IN  Store(fr, fr.ret,
              [ret EXCEPT !.fft = LensedBFormula(fr.heap[fr.e], fr.heap[fr.pfft], ret)])

\* cfft *= scalar: the container's in-place scalar multiplication
imul(fr, id, c) ==
    Store(fr, id, [fr.heap[id] EXCEPT !.fft = AScale(c, @)])

\* a bug: the rescale is applied twice
RescaleTwice(fr) ==
    LET ret == fr.heap[fr.ret]
        c == SqrtRatio(ret.nx * ret.ny, ret.dx * ret.dy)
    IN  imul(imul(fr, fr.ret, c), fr.ret, c)

\* ret *= np.sqrt(ret.nx * ret.ny) / np.sqrt(ret.dx * ret.dy)
Rescale(fr) ==
    LET ret == fr.heap[fr.ret]
    IN  imul(fr, fr.ret, SqrtRatio(ret.nx * ret.ny, ret.dx * ret.dy))

calc_lensed_b_first_order(e, phi) ==
    LET f == AssertCompatible(NormalizePhi(NormalizeE2(NormalizeE1(Frame(e, phi)))))
    IN  IF f.raised # "none" THEN f
        ELSE Rescale(AssignFft(AllocRet(f)))

(***************************************************************************)
(* The quadratic-estimator module (qest) and the binning of the container  *)
(* module.  A pixel width is the number 2*pi*a/b, so that the multipole of *)
(* a mode, |l| = 2*pi*|f|/(nx*dx), is the rational b*|f|/(nx*a).           *)
(***************************************************************************)
\* np.sqrt of an array of non-negative integers
ASqrt(a) ==
    [l \in DOMAIN a |-> IF a[l] = 0 THEN CZero ELSE SqrtRatio(a[l], 1)]

\* c * np.ones(n)
Const(c, n) == [l \in 0..(n - 1) |-> CInt(c)]

blen_EP(wE, wP) == [rep |-> "qest", kernel |-> "EP", wE |-> wE, wP |-> wP]

qest_blm_EX(wE, wP) == [rep |-> "qest", kernel |-> "EX", wE |-> wE, wP |-> wP]

\* the largest r with r*r <= n
RECURSIVE IsqrtFrom(_, _)
IsqrtFrom(n, r) == IF (r + 1) * (r + 1) > n THEN r ELSE IsqrtFrom(n, r + 1)

\* the signed frequency vector of a mode
Freq(obj, m) == <<fftfreq(m[1], obj.nx), fftfreq(m[2], obj.ny)>>

\* pix.get_ell, rounded down: the multipole of a mode of a square grid
get_ell(obj, m) ==
    LET f == Freq(obj, m)
        b == obj.dx.den
        a == obj.dx.re
    IN  IsqrtFrom((b * b * (f[1] * f[1] + f[2] * f[2])) \div (obj.nx * a * obj.nx * a), 0)

\* an array over the multipoles 0..lmax, read at a multipole
At(w, l) == IF l \in DOMAIN w THEN w[l] ELSE CZero

\* the coupling of two modes: gradient potential, or curl potential
Kernel(qe, f1, f2) ==
    IF qe.kernel = "EP"
    THEN f1[1] * f2[1] + f1[2] * f2[2]
    ELSE f1[1] * f2[2] - f1[2] * f2[1]

\* the padding factor of the response when fill_resp is called without npad
DefaultNpad == 2

\* the response power of the estimator pair at mode L: the sum over the pairs
\* of modes l1 + l2 = L of the two kernels and of the six weights, the sum of
\* the two modes taken on the grid padded npad times
ResponseAt(qe1, qe2, obj, wX, wY, npad, L) ==
    LET fL == Freq(obj, L)
        term(m1) ==
            LET m2 == <<(L[1] - m1[1]) % obj.nx, (L[2] - m1[2]) % obj.ny>>
                f1 == Freq(obj, m1)
                f2 == Freq(obj, m2)
                l1 == get_ell(obj, m1)
                l2 == get_ell(obj, m2)
            IN  IF \/ (f1[1] + f2[1] - fL[1]) % (npad * obj.nx) # 0
                   \/ (f1[2] + f2[2] - fL[2]) % (npad * obj.ny) # 0
                THEN CZero
                ELSE CMul(CInt(Kernel(qe1, f1, f2) * Kernel(qe2, f1, f2)),
                          CMul(CMul(CMul(At(qe1.wE, l1), At(qe2.wE, l1)), At(wX, l1)),
                               CMul(CMul(At(qe1.wP, l2), At(qe2.wP, l2)), At(wY, l2))))
    IN  GridSum([m1 \in Modes(obj.nx, obj.ny) |-> term(m1)], obj.nx, obj.ny)

\* qe1.fill_resp(qe2, ret, wX, wY, npad): adds the response to ret.fft in place
fill_resp(qe1, qe2, obj, wX, wY, npad) ==
    [obj EXCEPT !.fft =
        Array([L \in DOMAIN obj.fft |->
                 CAdd(obj.fft[L], ResponseAt(qe1, qe2, obj, wX, wY, npad, L))])]

\* the weight functions w(l) handed to the binning; "None" weighs every mode 1
Weight(w, l) ==
    IF w = "None" THEN 1
    ELSE IF w = "l" THEN l
    ELSE l * (l + 1)

\* cfft.get_ml(lbins, w=w): per bin [lbins[i], lbins[i+1]) the weighted average
\* of the modes in it, 0 for a bin of total weight 0
get_ml(obj, lbins, w) ==
    [lbins |-> lbins,
     cl |-> [i \in 1..(Len(lbins) - 1) |->
              LET inbin(m) == lbins[i] <= get_ell(obj, m) /\ get_ell(obj, m) < lbins[i + 1]
                  wt(m) == IF inbin(m) THEN CInt(Weight(w, get_ell(obj, m))) ELSE CZero
                  sum == GridSum([m \in DOMAIN obj.fft |-> CMul(wt(m), obj.fft[m])],
                                 obj.nx, obj.ny)
                  norm == GridSum([m \in DOMAIN obj.fft |-> wt(m)], obj.nx, obj.ny)
              IN  IF IsZero(norm) THEN CZero
                  ELSE CMul(sum, CRat(norm.den, norm.re))]]

(***************************************************************************)
(* calc_lensed_clbb_flat_sky_first_order(lbins, nx, dx, cl_unl, w) and     *)
(* calc_lensed_clbb_flat_sky_first_order_curl(lbins, nx, dx, cl_unl, w)    *)
(***************************************************************************)
\* the frame of one call: no object is alive but those the call constructs
ClFrame ==
    [heap |-> <<>>, writes |-> <<>>, trace |-> <<>>, ret |-> 0, qeep |-> 0, out |-> 0]

\* one call to the estimator or container module: the function, the object it
\* is a method of, the positional and the keyword arguments
Called(fn, self, pos, kw) == [fn |-> fn, self |-> self, pos |-> pos, kw |-> kw]

Log(fr, entry) == [fr EXCEPT !.trace = Append(@, entry)]

\* a bug: the destination of the previous spectrum call is kept and reused
NewDestCached(fr, nx, dx) ==
    LET stale == /\ Len(heap) = 3
                 /\ heap[3].rep = "bcl"
                 /\ heap[1].nx = nx
                 /\ heap[1].dx = dx
        f == New(fr, IF stale THEN heap[1] ELSE cfft_zeros(nx, dx, nx, dx))
    IN  Log([f EXCEPT !.ret = Last(f)], Called("maps.cfft", "", <<nx, dx>>, <<>>))

\* ret = maps.cfft(nx, dx): a square grid of zeros
NewDest(fr, nx, dx) ==
    LET f == New(fr, cfft_zeros(nx, dx, nx, dx))
    IN  Log([f EXCEPT !.ret = Last(f)], Called("maps.cfft", "", <<nx, dx>>, <<>>))

\* the construction of an estimator from sqrt(clee) and sqrt(clpp)
MakeEstimator(fr, fn, qe) ==
    LET f == New(fr, qe)
    IN  Log([f EXCEPT !.qeep = Last(f)], Called(fn, "", <<qe.wE, qe.wP>>, <<>>))

\* a bug: the E-mode spectrum is handed over for both weights
MakeEPTwiceE(fr, cl_unl) ==
    MakeEstimator(fr, "qest.lens.blen_EP", blen_EP(ASqrt(cl_unl.clee), ASqrt(cl_unl.clee)))

\* qeep = qest.lens.blen_EP(np.sqrt(cl_unl.clee), np.sqrt(cl_unl.clpp))
MakeEP(fr, cl_unl) ==
    MakeEstimator(fr, "qest.lens.blen_EP", blen_EP(ASqrt(cl_unl.clee), ASqrt(cl_unl.clpp)))

\* qeep = qest.qest_blm_EX(np.sqrt(cl_unl.clee), np.sqrt(cl_unl.clpp))
MakeEX(fr, cl_unl) ==
    MakeEstimator(fr, "qest.qest_blm_EX", qest_blm_EX(ASqrt(cl_unl.clee), ASqrt(cl_unl.clpp)))

\* qeep.fill_resp(qeep, ret, wX, wY[, npad=...]); kw is <<>> or <<<<"npad", n>>>>
FillResp(fr, wX, wY, kw) ==
    LET qe == fr.heap[fr.qeep]
        npad == IF kw = <<>> THEN DefaultNpad ELSE kw[1][2]
        f == Store(fr, fr.ret, fill_resp(qe, qe, fr.heap[fr.ret], wX, wY, npad))
    IN  Log(f, Called("fill_resp", "qeep", <<"qeep", "ret", wX, wY>>, kw))

\* qeep.fill_resp(qeep, ret, np.ones(cl_unl.lmax+1), 2.*np.ones(cl_unl.lmax+1), npad=1)
FillPadded(fr, cl_unl) ==
    FillResp(fr, Const(1, cl_unl.lmax + 1), Const(2, cl_unl.lmax + 1), <<<<"npad", 1>>>>)

\* a bug: the second weight is np.ones as well
FillOnes(fr, cl_unl) ==
    FillResp(fr, Const(1, cl_unl.lmax + 1), Const(1, cl_unl.lmax + 1), <<>>)

\* qeep.fill_resp(qeep, ret, np.ones(cl_unl.lmax+1), 2.*np.ones(cl_unl.lmax+1))
FillUnpadded(fr, cl_unl) ==
    FillResp(fr, Const(1, cl_unl.lmax + 1), Const(2, cl_unl.lmax + 1), <<>>)

\* return ret.get_ml(lbins, w=w): the binned spectrum is a new object
Bin(fr, lbins, w) ==
    LET bcl == get_ml(fr.heap[fr.ret], lbins, w)
        f == New(fr, [rep |-> "bcl", lbins |-> bcl.lbins, cl |-> bcl.cl])
    IN  Log([f EXCEPT !.out = Last(f)], Called("get_ml", "ret", <<lbins>>, <<<<"w", w>>>>))

\* a bug: the binning weight is handed to the response as well
ClbbWeightedResponse(lbins, nx, dx, cl_unl, w) ==
    Bin(FillResp(MakeEP(NewDest(ClFrame, nx, dx), cl_unl),
                 [l \in 0..cl_unl.lmax |-> CInt(Weight(w, l))],
                 Const(2, cl_unl.lmax + 1), <<<<"npad", 1>>>>),
        lbins, w)

calc_lensed_clbb_flat_sky_first_order(lbins, nx, dx, cl_unl, w) ==
    Bin(FillPadded(MakeEP(NewDest(ClFrame, nx, dx), cl_unl), cl_unl), lbins, w)

calc_lensed_clbb_flat_sky_first_order_curl(lbins, nx, dx, cl_unl, w) ==
    Bin(FillUnpadded(MakeEX(NewDest(ClFrame, nx, dx), cl_unl), cl_unl), lbins, w)

(***************************************************************************)
(* Inputs: real-space maps on small grids, handed over in any of the three *)
(* representations.                                                        *)
(***************************************************************************)
Reps == {"rmap", "rfft", "cfft"}

Grids == {[nx |-> s[1], dx |-> dx, ny |-> s[2], dy |-> dy] :
            s \in Shapes, dx \in PixSizes, dy \in PixSizes}

\* the map that is a at pixel p and 0 elsewhere
DeltaMap(g, p, a) ==
    Array([m \in Modes(g.nx, g.ny) |-> IF m = p THEN CInt(a) ELSE CZero])

\* the map a*cos(2*pi*(k1*x/nx + k2*y/ny)): one Fourier mode and its conjugate
ModeMap(g, k, a) ==
    Array([m \in Modes(g.nx, g.ny) |->
            CInt(a * CRot(CInt(1), Quarter(g.nx, g.ny, k, m)).re)])

Maps(g) ==
    {DeltaMap(g, p, a) : p \in Modes(g.nx, g.ny), a \in 0..MaxAmp}
    \cup {ModeMap(g, k, a) : k \in Modes(g.nx, g.ny), a \in 1..MaxAmp}

\* the potential maps: unit amplitude, at a few pixels and modes
PhiSites(g) == {m \in Modes(g.nx, g.ny) : m[1] <= 1 /\ m \in {<<0, 0>>, <<1, 0>>, <<1, 1>>}}

PhiMaps(g) ==
    {DeltaMap(g, p, a) : p \in PhiSites(g), a \in 0..1}
    \cup {ModeMap(g, k, 1) : k \in PhiSites(g)}

MakeMap(g, map) == rmap(g.nx, g.dx, g.ny, g.dy, map)

\* the caller's conversion of a real-space map to a representation
InRep(obj, rep) ==
    IF rep = "rmap" THEN obj
    ELSE IF rep = "rfft" THEN get_rfft(obj)
    ELSE get_cfft(get_rfft(obj))

NoOutcome == [kind |-> "none"]

\* a returned reference and the object it refers to
Returned(ref, value) == [kind |-> "returned", ref |-> ref, value |-> value]

Raised(exc) == [kind |-> "raised", value |-> exc]

\* the state before a call of calc_lensed_b_first_order: e and phi are the
\* maps me on grid ge and mp on grid gp, in the representations re and rp
ReadyLensedB(ge, me, re, gp, mp, rp) ==
    /\ pc = "ready"
    /\ under = [e |-> MakeMap(ge, me), phi |-> MakeMap(gp, mp)]
    /\ args = [op |-> "calc_lensed_b_first_order",
               e |-> InRep(under.e, re), phi |-> InRep(under.phi, rp)]
    /\ heap = <<args.e, args.phi>>
    /\ writes = <<0, 0>>
    /\ outcome = NoOutcome
    /\ trace = <<>>
    /\ first = NoOutcome

\* grids on which the transform of the product is not identically zero
NumericGrids ==
    {g \in Grids : g.nx > 1 /\ g.ny > 1 /\ g.dx = 1 /\ (g.nx = 4 => g.dy = 1)}

\* every pair of maps of the family on one grid, as full-complex transforms
InitLensedB ==
    \E g \in NumericGrids : \E me \in Maps(g), mp \in PhiMaps(g) :
        ReadyLensedB(g, me, "cfft", g, mp, "cfft")

\* any two grids, any two representations
InitGrid ==
    \E ge \in Grids, gp \in Grids, re \in Reps, rp \in Reps :
        ReadyLensedB(ge, DeltaMap(ge, <<0, 0>>, 1), re,
                     gp, DeltaMap(gp, <<0, 0>>, 1), rp)

\* one grid, any two representations
InitRep ==
    \E g \in NumericGrids, re \in Reps, rp \in Reps :
        \E me \in Maps(g), p \in {<<1, 0>>, <<1, 1>>} :
            ReadyLensedB(g, me, re, g, DeltaMap(g, p, 1), rp)

CallLensedB ==
    /\ pc = "ready"
    /\ args.op = "calc_lensed_b_first_order"
    /\ \E f \in {calc_lensed_b_first_order(args.e, args.phi)} :
           /\ heap' = f.heap
           /\ writes' = f.writes
           /\ outcome' = IF f.raised # "none" THEN Raised(f.raised)
                         ELSE Returned(f.ret, f.heap[f.ret])
    /\ pc' = "done"
    /\ UNCHANGED <<under, args, trace, first>>

NextLensedB == CallLensedB

Spec == InitLensedB /\ [][NextLensedB]_vars

SpecGrid == InitGrid /\ [][NextLensedB]_vars

SpecRep == InitRep /\ [][NextLensedB]_vars

(***************************************************************************)
(* The spectrum routines: their arguments and their calls.                 *)
(***************************************************************************)
\* the pixel width 2*pi/d
PixWidth(d) == CNorm(1, 0, d, 1, 1)

\* target grids <<nx, d>> with dx = 2*pi/d: the modes lie at multipoles 2*|f|
ClGrids == {<<2, 4>>, <<4, 8>>}

\* model spectra over 0..LMax: flat, or flat but for one multipole
ClFamily ==
    {[l \in 0..LMax |-> IF l = k THEN a ELSE b] : k \in {2}, a \in 0..MaxPower, b \in 0..MaxPower}

ClWeights == {"None", "l", "l(l+1)"}

ClBins == {<<0, 2, 4, 6>>, <<0, 3, 6>>}

ClOps == {"calc_lensed_clbb_flat_sky_first_order",
          "calc_lensed_clbb_flat_sky_first_order_curl"}

ClArgs ==
    {[op |-> op, lbins |-> lbins, nx |-> g[1], dx |-> PixWidth(g[2]),
      cl_unl |-> [lmax |-> LMax, clee |-> clee, clpp |-> clpp], w |-> w] :
        op \in ClOps, lbins \in ClBins, g \in ClGrids,
        clee \in ClFamily, clpp \in ClFamily, w \in ClWeights}

InitCl ==
    /\ pc = "ready"
    /\ under = NoOutcome
    /\ args \in ClArgs
    /\ heap = <<>>
    /\ writes = <<>>
    /\ outcome = NoOutcome
    /\ trace = <<>>
    /\ first = NoOutcome

\* the effect of a spectrum call whose frame ended as f
ClReturns(f) ==
    /\ heap' = f.heap
    /\ writes' = f.writes
    /\ trace' = f.trace
    /\ outcome' = Returned(f.out, f.heap[f.out])
    /\ pc' = "done"
    /\ UNCHANGED <<under, args, first>>

CallClbb ==
    /\ pc = "ready"
    /\ args.op = "calc_lensed_clbb_flat_sky_first_order"
    /\ \E f \in {calc_lensed_clbb_flat_sky_first_order(
                     args.lbins, args.nx, args.dx, args.cl_unl, args.w)} : ClReturns(f)

CallClbbCurl ==
    /\ pc = "ready"
    /\ args.op = "calc_lensed_clbb_flat_sky_first_order_curl"
    /\ \E f \in {calc_lensed_clbb_flat_sky_first_order_curl(
                     args.lbins, args.nx, args.dx, args.cl_unl, args.w)} : ClReturns(f)

NextCl == CallClbb \/ CallClbbCurl

SpecCl == InitCl /\ [][NextCl]_vars

(***************************************************************************)
(* A caller making one call after another, of any of the three operations. *)
(***************************************************************************)
Ops == {"calc_lensed_b_first_order"} \cup ClOps

SeqGrid(dy) == [nx |-> 2, dx |-> 1, ny |-> 2, dy |-> dy]

\* calls of calc_lensed_b_first_order: e in any representation, phi on the
\* same grid or on one of another pixel height
SeqLensedB ==
    {[op |-> "calc_lensed_b_first_order",
      e |-> InRep(MakeMap(SeqGrid(1), DeltaMap(SeqGrid(1), <<1, 1>>, MaxAmp)), re),
      phi |-> InRep(MakeMap(SeqGrid(dy), DeltaMap(SeqGrid(dy), <<1, 0>>, 1)), "cfft")] :
        re \in Reps, dy \in PixSizes}

\* calls of the spectrum routines: flat spectra on the smaller grid
SeqCl ==
    {a \in ClArgs : /\ a.nx = 2
                    /\ a.w # "l(l+1)"
                    /\ a.lbins = <<0, 2, 4, 6>>
                    /\ \A l \in 0..LMax : a.cl_unl.clee[l] = MaxPower /\ a.cl_unl.clpp[l] = MaxPower}

SeqArgs == SeqLensedB \cup SeqCl

InitSeq ==
    /\ pc = "idle"
    /\ under = NoOutcome
    /\ args = [op |-> "none"]
    /\ heap = <<>>
    /\ writes = <<>>
    /\ outcome = NoOutcome
    /\ trace = <<>>
    /\ first = NoOutcome

\* the first call of the sequence, and the operations called after it
FirstCall(a, o) == [kind |-> "call", args |-> a, outcome |-> o, between |-> {}]

\* the caller makes up the arguments of the next call; the objects of the
\* previous call stay alive unless new input maps take their place
Prepare ==
    /\ pc \in {"idle", "done"}
    /\ \E a \in SeqArgs :
           /\ args' = a
           /\ IF a.op = "calc_lensed_b_first_order"
              THEN heap' = <<a.e, a.phi>> /\ writes' = <<0, 0>>
              ELSE UNCHANGED <<heap, writes>>
    /\ first' = IF pc = "idle" THEN first
                ELSE IF first = NoOutcome THEN FirstCall(args, outcome)
                ELSE [first EXCEPT !.between = @ \cup {args.op}]
    /\ pc' = "ready"
    /\ outcome' = NoOutcome
    /\ trace' = <<>>
    /\ UNCHANGED under

NextSeq == Prepare \/ CallLensedB \/ CallClbb \/ CallClbbCurl

SpecSeq == InitSeq /\ [][NextSeq]_vars

(***************************************************************************)
(* Properties of calc_lensed_b_first_order.                                *)
(***************************************************************************)
Done == pc = "done" /\ args.op = "calc_lensed_b_first_order"

\* C1: the call raises AssertionError and returns nothing when the normalized
\* e and potential differ in nx, ny, dx or dy, and returns a field when they
\* agree on all four, whatever the representations of e and phi
AssertionIffIncompatible ==
    Done =>
        /\ ~compatible(under.e, under.phi) =>
              outcome = Raised("AssertionError")
        /\ compatible(under.e, under.phi) =>
              /\ outcome.kind = "returned"
              /\ outcome.value.rep = "cfft"
              /\ compatible(outcome.value, under.e)

IncompatibleRaised ==
    /\ Done
    /\ under.e.nx = under.phi.nx /\ under.e.ny = under.phi.ny
    /\ under.e.dx = under.phi.dx /\ under.e.dy # under.phi.dy
    /\ args.e.rep = "rmap" /\ args.phi.rep = "cfft"
    /\ outcome = Raised("AssertionError")

\* the call on the same two fields, both handed over as full-complex transforms
Canonical == calc_lensed_b_first_order(InRep(under.e, "cfft"), InRep(under.phi, "cfft"))

\* the objects a representation makes the normalization construct
Chain(rep) == IF rep = "rmap" THEN 2 ELSE IF rep = "rfft" THEN 1 ELSE 0

\* C2: the output is the same for all 9 combinations of the representations of
\* e and phi (it is the output for the two full-complex transforms), and each
\* input goes through exactly one conversion chain: two conversions for a
\* real-space map, one for a real-Fourier transform, none for a full-complex one
RepresentationIndependent ==
    Done /\ outcome.kind = "returned" =>
        /\ outcome.value = Canonical.heap[Canonical.ret]
        /\ Len(heap) = 2 + Chain(args.e.rep) + Chain(args.phi.rep) + 1

NonZeroOutput == Done /\ outcome.kind = "returned" /\ ~AllZero(outcome.value.fft)

RmapAndRfftGiven ==
    /\ NonZeroOutput
    /\ args.e.rep = "rmap" /\ args.phi.rep = "rfft"
    /\ under.e.nx = 4

\* C3: the output is all-zero when the potential is all-zero, and when the
\* E-mode field is all-zero
ZeroInZeroOut ==
    Done /\ outcome.kind = "returned"
         /\ (AllZero(under.phi.map) \/ AllZero(under.e.map)) =>
        AllZero(outcome.value.fft)

ZeroPotentialGiven ==
    /\ Done /\ outcome.kind = "returned"
    /\ AllZero(args.phi.fft) /\ ~AllZero(args.e.fft)
    /\ AllZero(outcome.value.fft)

\* c * phi, for a full-complex transform phi
ScaledField(c, obj) == [obj EXCEPT !.fft = AScale(CInt(c), @)]

OutputFor(e, phi) ==
    LET f == calc_lensed_b_first_order(e, phi) IN f.heap[f.ret].fft

\* C4: for every scalar c the output for (e, c*phi) is c times the output for
\* (e, phi), mode by mode
LinearInPotential ==
    Done /\ outcome.kind = "returned" =>
        \A c \in (-MaxScale)..MaxScale :
            OutputFor(args.e, ScaledField(c, args.phi))
                = AScale(CInt(c), outcome.value.fft)

\* a nonzero output, which a scalar other than 0 and 1 changes
ScalableOutput == NonZeroOutput /\ MaxScale >= 2 /\ args.phi.rep = "cfft"

\* the hand-computed first-order convolution at mode L: the sum over the pairs
\* l1 + l2 = L (mod the grid) of (l1.l2) E(l1) P(l2) times
\* exp(2i(psi(l1) - psi(L))) - exp(-2i(psi(l1) - psi(L))), over nx*ny
ConvolutionAt(L, e, p) ==
    LET nx == e.nx
        ny == e.ny
        lx == get_lx(e)
        ly == get_ly(e)
        rot(sign, m) == ExpTwoIPsiAt(sign, lx[m], ly[m])
        term(l1) ==
            LET l2 == <<(L[1] - l1[1]) % nx, (L[2] - l1[2]) % ny>>
            IN  CMul(CMul(CAdd(CMul(lx[l1], lx[l2]), CMul(ly[l1], ly[l2])),
                          CMul(e.fft[l1], p.fft[l2])),
                     CAdd(CMul(rot(1, l1), rot(-1, L)),
                          CNeg(CMul(rot(-1, l1), rot(1, L)))))
    IN  CMul(CRat(1, nx * ny),
             CSum([x \in 0..(nx - 1) |->
                     CSum([y \in 0..(ny - 1) |-> term(<<x, y>>)], ny)],
                  nx))

\* C5: the returned field is -i/2 times the sum of the +2 and -2 spin
\* contributions, multiplied once by sqrt(nx*ny)/sqrt(dx*dy): mode by mode it
\* is the hand-computed convolution times -i/2 * sqrt(nx*ny/(dx*dy))
MatchesHandComputedConvolution ==
    Done /\ outcome.kind = "returned" =>
        \A L \in DOMAIN outcome.value.fft :
            outcome.value.fft[L]
                = CMul(CMul(CNorm(0, -1, 2, 0, 1),
                            SqrtRatio(args.e.nx * args.e.ny, args.e.dx * args.e.dy)),
                       ConvolutionAt(L, args.e, args.phi))

NonZeroCount(a) == Cardinality({m \in DOMAIN a : ~IsZero(a[m])})

\* a single-mode E field and a single-mode potential giving a single-mode output
SingleModesGiven ==
    /\ Done /\ outcome.kind = "returned"
    /\ NonZeroCount(args.e.fft) = 1
    /\ NonZeroCount(args.phi.fft) = 1
    /\ NonZeroCount(outcome.value.fft) = 1

\* the objects of the call other than the returned one were never written
OnlyOutputWritten(n) ==
    /\ Len(heap) >= 2
    /\ heap[1] = args.e /\ writes[1] = 0
    /\ heap[2] = args.phi /\ writes[2] = 0
    /\ \A i \in 1..Len(heap) :
          IF outcome.kind = "returned" /\ i = outcome.ref
          THEN writes[i] = n
          ELSE writes[i] = 0

\* C9 as stated: e, phi and the normalized copies are not written, and the
\* output field is written exactly once between its allocation and the return
OutputWrittenOnce == Done => OnlyOutputWritten(1)

\* C9 as amended: e, phi and the normalized copies are not written, and the
\* output field is written exactly twice between its allocation and the
\* return: the assignment of the formula, then the in-place rescale
OutputWrittenTwice == Done => OnlyOutputWritten(2)

CfftInputsReturned ==
    /\ Done /\ outcome.kind = "returned"
    /\ args.e.rep = "cfft" /\ args.phi.rep = "cfft"
    /\ writes[outcome.ref] = 2

(***************************************************************************)
(* Properties of the spectrum routines.                                    *)
(***************************************************************************)
DoneCl == pc = "done" /\ args.op \in ClOps

\* the frame a spectrum call with the arguments a ends in
ClRoutine(a) ==
    IF a.op = "calc_lensed_clbb_flat_sky_first_order"
    THEN calc_lensed_clbb_flat_sky_first_order(a.lbins, a.nx, a.dx, a.cl_unl, a.w)
    ELSE calc_lensed_clbb_flat_sky_first_order_curl(a.lbins, a.nx, a.dx, a.cl_unl, a.w)

\* the same call without a weight function
Unweighted == ClRoutine([args EXCEPT !.w = "None"])

\* C6: in both spectrum routines the weight w reaches get_ml only: the
\* destination grid, the estimator, the filled field and every call before the
\* binning are those of the call with w = None, and the bins are the weighted
\* average of that same field
WeightOnlyInBinning ==
    DoneCl =>
        \E u \in {Unweighted} :
            /\ heap[u.ret] = u.heap[u.ret]
            /\ heap[u.qeep] = u.heap[u.qeep]
            /\ Len(trace) = 4
            /\ \A i \in 1..3 : trace[i] = u.trace[i]
            /\ trace[4] = [u.trace[4] EXCEPT !.kw = <<<<"w", args.w>>>>]
            /\ outcome.value.cl = get_ml(u.heap[u.ret], args.lbins, args.w).cl

\* a weight function was given and the bins are not those of the plain average
WeightChangedBins ==
    /\ DoneCl
    /\ args.w # "None"
    /\ outcome.value.cl # Unweighted.heap[Unweighted.out].cl
    /\ ~AllZero(outcome.value.cl)

\* C7: a potential spectrum that is zero at every multipole gives a binned
\* spectrum that is zero in every bin, in the gradient and in the curl routine,
\* whatever clee, lbins and w are
ZeroPotentialPower ==
    (DoneCl /\ \A l \in 0..args.cl_unl.lmax : args.cl_unl.clpp[l] = 0)
        => AllZero(outcome.value.cl)

\* clpp is all zero and clee is not
ZeroPotentialPowerGiven ==
    /\ DoneCl
    /\ \A l \in 0..args.cl_unl.lmax : args.cl_unl.clpp[l] = 0
    /\ \A l \in 0..args.cl_unl.lmax : args.cl_unl.clee[l] > 0
    /\ args.w # "None"

\* a call of the gradient routine, rewritten as the curl routine makes it
AsCurl(entry) ==
    IF entry.fn = "qest.lens.blen_EP" THEN [entry EXCEPT !.fn = "qest.qest_blm_EX"]
    ELSE IF entry.fn = "fill_resp" THEN [entry EXCEPT !.kw = <<>>]
    ELSE entry

\* C10: the curl routine makes the calls of the gradient routine, in the same
\* order and with the same arguments (grid allocation, estimator of the square
\* roots of the spectra, response with the weights 1 and 2, binning with w),
\* but for the estimator being the EX one and npad not being passed
CurlMirrorsGradient ==
    (DoneCl /\ args.op = "calc_lensed_clbb_flat_sky_first_order_curl") =>
        \E g \in {calc_lensed_clbb_flat_sky_first_order(
                      args.lbins, args.nx, args.dx, args.cl_unl, args.w)} :
            /\ Len(trace) = Len(g.trace)
            /\ \A i \in 1..Len(trace) : trace[i] = AsCurl(g.trace[i])
            /\ g.trace[2].fn = "qest.lens.blen_EP"
            /\ g.trace[3].kw = <<<<"npad", 1>>>>
            /\ heap[g.qeep] = [g.heap[g.qeep] EXCEPT !.kernel = "EX"]
            /\ writes = g.writes

\* the curl routine returned bins that the gradient routine does not
CurlDiffersFromGradient ==
    /\ DoneCl
    /\ args.op = "calc_lensed_clbb_flat_sky_first_order_curl"
    /\ outcome.value.cl # ClRoutine([args EXCEPT !.op = "calc_lensed_clbb_flat_sky_first_order"]).heap[3].cl

(***************************************************************************)
(* Properties of sequences of calls.                                       *)
(***************************************************************************)
\* the call just made has the operation and the arguments of the first call
RepeatsFirst ==
    /\ pc = "done"
    /\ first.kind = "call"
    /\ first.args.op = args.op
    /\ first.args = args

====
